---- MODULE Spec2Model ----
(***************************************************************************)
(* State-machine model of end-rs' NotificationDaemon                       *)
(* (src/src/notifdaemon.rs).                                               *)
(*                                                                         *)
(* The daemon's fields are the variables; every tokio Mutex is an entry of *)
(* `lock`; every D-Bus / control request runs in one of NumProcs handler   *)
(* tasks; every tokio::spawn of notify is an entry of `timers`.            *)
(*                                                                         *)
(* Granularity.  The Config mutex is the only one taken with try_lock, so  *)
(* it is the only one whose being held another task can observe without    *)
(* waiting: every stretch of code that holds it ends in a state of its     *)
(* own.  The Store, History and Connection mutexes are only taken with     *)
(* lock().await; a step that needs one is enabled when it is free and runs *)
(* to the next point where the task keeps the Config across a slow call    *)
(* or an await.  A call that would have to wait is a call made later.      *)
(*                                                                         *)
(* notify takes `&mut self`, the other handlers `&self`: a notify call     *)
(* therefore never overlaps another handler, but it does overlap the       *)
(* spawned timer tasks, which only own clones of the Arcs.                 *)
(*                                                                         *)
(* A notification's app_name, icon, summary and body are copied verbatim   *)
(* from the request into the record and into the history entry; the model  *)
(* carries one of them (summary) as the stand-in for the four.             *)
(***************************************************************************)
EXTENDS Integers, Sequences, FiniteSets, TLC

\* ------------------------------------------------------------------ bounds
NumProcs == 2       \* handler tasks that can be in flight at once
MaxNotify == 3      \* notify calls in one behaviour
MaxId == 1          \* largest id a caller passes (replaces_id, close, ...)

\* --------------------------------------------------------------- constants
\* u32 arithmetic of next_id, scaled down to 4 bits
U32Modulus == 16
\* reason code of an explicit close
ReasonClosed == 3

Summaries == {"s1", "s2"}
\* the `actions` argument: a flat list of key, label, key, label, ...
ActionLists == {<<>>, <<"k1", "Open", "k2">>}
\* the "urgency" hint: <<>> when absent or not a u8, <<u>> when Value::U8(u)
UrgencyHints == {<<>>, <<0>>}
ExpireTimeouts == {-1, 0, 250}

\* the Config the daemon was constructed with (seconds, history cap)
max_notifications == 2
ConfigValue ==
    [timeout |-> [low |-> 1, normal |-> 5, critical |-> 10],
     max_notifications |-> max_notifications]

VARIABLES
    next_id,                \* NotificationDaemon::next_id
    notifications,          \* the Store: id -> Notification
    notifications_history,  \* Vec<HistoryNotification>, oldest first
    config,                 \* the Config behind the config Mutex
    lock,                   \* holder of each Mutex
    task,                   \* handler tasks: operation, position, locals
    timers,                 \* spawned timeout tasks, in spawn order
    out,                    \* renderer calls, signals and returns of the last step
    returned,               \* ids returned by the notify calls with replaces_id = 0
    pushed                  \* every history entry ever pushed, in push order

vars == <<next_id, notifications, notifications_history, config, lock, task,
          timers, out, returned, pushed>>

Procs == 1..NumProcs
Ids == 1..MaxId

\* ------------------------------------------------------------------- locks
LockNames == {"config", "notifications", "notifications_history", "connection"}
Free == <<"free", 0>>
Handler(p) == <<"handler", p>>
Timer(k) == <<"timer", k>>

\* (variant: the Store guard is dropped at once, the lock is not kept)
Acquire_StoreNotKept(l, names, who) ==
    [n \in LockNames |-> IF n \in names \ {"notifications"} THEN who ELSE l[n]]

Acquire(l, names, who) == [n \in LockNames |-> IF n \in names THEN who ELSE l[n]]
Release(l, who) == [n \in LockNames |-> IF l[n] = who THEN Free ELSE l[n]]

\* ------------------------------------------------------------- pure helpers
NoRequest == [replaces_id |-> 0, summary |-> "", actions |-> <<>>,
              urgency |-> <<>>, expire_timeout |-> 0]

\* a handler task: its operation, where it is, its id; for notify also its
\* arguments, its local expire_timeout (the effective timeout, milliseconds)
\* and the handle of the timer it spawned (0: none)
Idle == [op |-> "none", pc |-> "idle", id |-> 0, req |-> NoRequest,
         expire_timeout |-> 0, join_handle |-> 0]

\* the requests tried: the first summary comes without actions, the others with
Requests ==
    {r \in [replaces_id : 0..MaxId, summary : Summaries, actions : ActionLists,
            urgency : UrgencyHints, expire_timeout : ExpireTimeouts] :
        (r.summary = "s1") <=> (r.actions = <<>>)}

\* actions.chunks(2).map(|c| (c[0] or "", c[1] or ""))
RECURSIVE Chunks(_)
Chunks(s) ==
    IF Len(s) = 0 THEN <<>>
    ELSE IF Len(s) = 1 THEN << <<s[1], "">> >>
    ELSE << <<s[1], s[2]>> >> \o Chunks(SubSeq(s, 3, Len(s)))

\* (variant: the urgency mapping also replaces an explicit 0)
EffectiveTimeout_ZeroMapped(expire_timeout, urgency, cfg) ==
    IF expire_timeout <= 0
    THEN IF urgency = <<0>> THEN cfg.timeout.low * 1000
         ELSE IF urgency = <<2>> THEN cfg.timeout.critical * 1000
         ELSE cfg.timeout.normal * 1000
    ELSE expire_timeout

\* the effective timeout in milliseconds
EffectiveTimeout(expire_timeout, urgency, cfg) ==
    IF expire_timeout < 0
    THEN IF urgency = <<0>> THEN cfg.timeout.low * 1000
         ELSE IF urgency = <<1>> THEN cfg.timeout.normal * 1000
         ELSE IF urgency = <<2>> THEN cfg.timeout.critical * 1000
         ELSE cfg.timeout.normal * 1000
    ELSE expire_timeout

\* (variant: the counter is read before it is incremented)
AllocatedId_Stale(replaces_id, counter) ==
    IF replaces_id # 0 THEN replaces_id ELSE counter

\* id allocation
AllocatedId(replaces_id, counter) ==
    IF replaces_id # 0 THEN replaces_id ELSE (counter + 1) % U32Modulus

NextCounter(replaces_id, counter) ==
    IF replaces_id # 0 THEN counter ELSE (counter + 1) % U32Modulus

\* (variant: the newest entry is dropped instead of the oldest)
PushHistory_DropNewest(h, entry, cap) ==
    LET grown == Append(h, entry)
    IN IF Len(grown) > cap THEN SubSeq(grown, 1, Len(grown) - 1) ELSE grown

\* push, then drop the oldest entry when over the cap
PushHistory(h, entry, cap) ==
    LET grown == Append(h, entry)
    IN IF Len(grown) > cap THEN Tail(grown) ELSE grown

\* (variant: an existing entry is kept, as with entry().or_insert())
Insert_IfAbsent(store, id, rec) ==
    [k \in DOMAIN store \cup {id} |-> IF k \in DOMAIN store THEN store[k] ELSE rec]

\* HashMap::insert / HashMap::remove
Insert(store, id, rec) ==
    [k \in DOMAIN store \cup {id} |-> IF k = id THEN rec ELSE store[k]]

Remove(store, id) == [k \in DOMAIN store \ {id} |-> store[k]]

\* (variant: the reply closes the notification)
ClearActions_Removes(store, id) == [k \in DOMAIN store \ {id} |-> store[k]]

ClearActions(store, id) ==
    IF id \in DOMAIN store
    THEN [store EXCEPT ![id] = [@ EXCEPT !.actions = <<>>]]
    ELSE store

SetCancelled(store, id) ==
    IF id \in DOMAIN store
    THEN [store EXCEPT ![id] = [@ EXCEPT !.timeout_cancelled = TRUE]]
    ELSE store

\* --------------------------------------------------------- external effects
Ev(call, id, reason, active, hist, result) ==
    [call |-> call, id |-> id, reason |-> reason, active |-> active,
     history |-> hist, result |-> result]

UpdateNotifications(store) == Ev("eww_update_notifications", 0, 0, store, <<>>, "")
CloseNotifications == Ev("eww_close_notifications", 0, 0, <<>>, <<>>, "")
UpdateHistory(h) == Ev("eww_update_history", 0, 0, <<>>, h, "")
ToggleHistory(h) == Ev("eww_toggle_history", 0, 0, <<>>, h, "")
CloseHistoryWindow == Ev("eww_close_history", 0, 0, <<>>, <<>>, "")
CloseWindow == Ev("eww_close_window", 0, 0, <<>>, <<>>, "notification-reply")
EmitSignal(id, reason) == Ev("NotificationClosed", id, reason, <<>>, <<>>, "")
\* op(id) returned `result` (for notify, `id` is the id it returned)
Return(op, id, result) == Ev(op, id, 0, <<>>, <<>>, result)

\* update, and close the window when the active set is empty
PushActive(store) ==
    IF DOMAIN store = {}
    THEN <<UpdateNotifications(store), CloseNotifications>>
    ELSE <<UpdateNotifications(store)>>

\* -------------------------------------------------------------------- Init
Init ==
    /\ next_id = 0
    /\ notifications = <<>>
    /\ notifications_history = <<>>
    /\ config = ConfigValue
    /\ lock = [n \in LockNames |-> Free]
    /\ task = [p \in Procs |-> Idle]
    /\ timers = <<>>
    /\ out = <<>>
    /\ returned = <<>>
    /\ pushed = <<>>

NotifyRunning == \E q \in Procs : task[q].op = "notify"
AllIdle == \A q \in Procs : task[q].pc = "idle"
\* handler tasks are anonymous: a new call runs in the first idle one
FreeSlot(p) == task[p].pc = "idle" /\ \A q \in Procs : q < p => task[q].pc # "idle"
\* a `&self` handler can start: there is a task for it and no `&mut self` call runs
CanCall(p) == FreeSlot(p) /\ ~NotifyRunning

\* ------------------------------------------------------------------ notify
\* the timer task to spawn for this call, if any
SpawnedTimers(ts, id, expire_timeout) ==
    IF expire_timeout # 0
    THEN Append(ts, [id |-> id, pc |-> "sleep", cancelled |-> FALSE,
                     closed |-> FALSE])
    ELSE ts

JoinHandle(ts, expire_timeout) == IF expire_timeout # 0 THEN Len(ts) + 1 ELSE 0

\* the record notify builds
NewNotification(req, handle) ==
    [summary |-> req.summary, actions |-> Chunks(req.actions),
     timeout_cancelled |-> FALSE, timeout_future |-> handle]

\* the id, the Config lock, the timeout, the history push and eviction under
\* the History lock, the spawn; the task then waits for the Store with the
\* Config still held
NotifyCall(p, req) ==
    /\ FreeSlot(p) /\ AllIdle
    /\ Len(pushed) < MaxNotify
    /\ lock["config"] = Free
    /\ lock["notifications_history"] = Free
    /\ LET id == AllocatedId(req.replaces_id, next_id)
           expire_timeout == EffectiveTimeout(req.expire_timeout, req.urgency, config)
       IN /\ next_id' = NextCounter(req.replaces_id, next_id)
          /\ notifications_history' =
                PushHistory(notifications_history, [summary |-> req.summary],
                            config.max_notifications)
          /\ pushed' = Append(pushed, [summary |-> req.summary])
          /\ timers' = SpawnedTimers(timers, id, expire_timeout)
          /\ task' = [task EXCEPT ![p] =
                [op |-> "notify", pc |-> "store", id |-> id, req |-> req,
                 expire_timeout |-> expire_timeout,
                 join_handle |-> JoinHandle(timers, expire_timeout)]]
    /\ lock' = Acquire(lock, {"config"}, Handler(p))
    /\ out' = <<>>
    /\ UNCHANGED <<notifications, config, returned>>

\* self.notifications.lock().await, insert, push, return
NotifyStore(p) ==
    /\ task[p].op = "notify" /\ task[p].pc = "store"
    /\ lock["notifications"] = Free
    /\ notifications' =
          Insert(notifications, task[p].id,
                 NewNotification(task[p].req, task[p].join_handle))
    /\ out' = <<UpdateNotifications(notifications'),
                Return("notify", task[p].id, "ok")>>
    /\ lock' = Release(lock, Handler(p))
    /\ returned' = IF task[p].req.replaces_id = 0
                   THEN Append(returned, task[p].id)
                   ELSE returned
    /\ task' = [task EXCEPT ![p] = Idle]
    /\ UNCHANGED <<next_id, notifications_history, config, timers, pushed>>

\* -------------------------------------------------------------- timer task
\* a timer task that has run to its end
Finished == [id |-> 0, pc |-> "done", cancelled |-> FALSE, closed |-> FALSE]

\* (variant: the timer waits for the Config, lock().await, with the Store held)
TimerFire_Blocking(k) ==
    /\ k \in DOMAIN timers
    /\ timers[k].pc = "sleep"
    /\ lock["notifications"] = Free
    /\ LET id == timers[k].id
       IN IF id \in DOMAIN notifications
          THEN /\ notifications' = Remove(notifications, id)
               /\ IF lock["config"] = Free
                  THEN /\ lock' = Acquire(lock, {"notifications", "config"}, Timer(k))
                       /\ timers' = [timers EXCEPT ![k] =
                             [@ EXCEPT !.pc = "push",
                                       !.cancelled = notifications[id].timeout_cancelled]]
                  ELSE /\ lock' = Acquire(lock, {"notifications"}, Timer(k))
                       /\ timers' = [timers EXCEPT ![k] = [@ EXCEPT !.pc = "config"]]
          ELSE /\ notifications' = notifications
               /\ lock' = lock
               /\ timers' = [timers EXCEPT ![k] = Finished]
    /\ out' = <<>>
    /\ UNCHANGED <<next_id, notifications_history, config, task, returned, pushed>>

\* after the sleep: lock the Store, remove the id, try_lock the Config
TimerFire(k) ==
    /\ k \in DOMAIN timers
    /\ timers[k].pc = "sleep"
    /\ lock["notifications"] = Free
    /\ LET id == timers[k].id
       IN IF id \in DOMAIN notifications
          THEN /\ notifications' = Remove(notifications, id)
               /\ IF lock["config"] = Free
                  THEN /\ lock' = Acquire(lock, {"notifications", "config"}, Timer(k))
                       /\ timers' = [timers EXCEPT ![k] =
                             [@ EXCEPT !.pc = "push",
                                       !.cancelled = notifications[id].timeout_cancelled]]
                  ELSE /\ lock' = lock
                       /\ timers' = [timers EXCEPT ![k] = Finished]
          ELSE /\ notifications' = notifications
               /\ lock' = lock
               /\ timers' = [timers EXCEPT ![k] = Finished]
    /\ out' = <<>>
    /\ UNCHANGED <<next_id, notifications_history, config, task, returned, pushed>>

\* (variant: the window is not closed when the last record goes)
TimerPushes_NoClose(cancelled, store) ==
    IF cancelled THEN <<>> ELSE <<UpdateNotifications(store)>>

\* (variant: the suppression flag is not consulted)
TimerPushes_Unconditional(cancelled, store) == PushActive(store)

\* what the timer pushes once it holds the Config
TimerPushes(cancelled, store) == IF cancelled THEN <<>> ELSE PushActive(store)

TimerPush(k) ==
    /\ k \in DOMAIN timers
    /\ timers[k].pc = "push"
    /\ out' = TimerPushes(timers[k].cancelled, notifications)
    /\ lock' = Release(lock, Timer(k))
    /\ timers' = [timers EXCEPT ![k] = Finished]
    /\ UNCHANGED <<next_id, notifications, notifications_history, config, task,
                   returned, pushed>>

\* ------------------------------------------------------ close_notification
\* the signal the close path emits
ClosedSignal(id) == EmitSignal(id, ReasonClosed)

\* (variant: the result of the removal is not looked at)
WasPresent_Always(store, id) == TRUE

\* notifications.remove(&id).is_some()
WasPresent(store, id) == id \in DOMAIN store

\* bookkeeping: the pending timer of a record that close_notification removed
\* is marked; the handle itself is dropped with the record and the task runs on
MarkClosed(ts, rec) ==
    [k \in DOMAIN ts |->
        IF k = rec.timeout_future /\ ts[k].pc = "sleep"
        THEN [ts[k] EXCEPT !.closed = TRUE]
        ELSE ts[k]]

\* lock the Store, remove, try_lock the Config, push; the task then waits
\* for the Connection with the Store and the Config held
CloseNotification(p, id) ==
    /\ CanCall(p)
    /\ lock["notifications"] = Free
    /\ IF WasPresent(notifications, id)
       THEN /\ notifications' = Remove(notifications, id)
            /\ timers' = IF id \in DOMAIN notifications
                         THEN MarkClosed(timers, notifications[id])
                         ELSE timers
            /\ IF lock["config"] # Free
               THEN /\ out' = <<Return("close_notification", id, "failed")>>
                    /\ UNCHANGED <<lock, task>>
               ELSE /\ out' = PushActive(notifications')
                    /\ lock' = Acquire(lock, {"notifications", "config"}, Handler(p))
                    /\ task' = [task EXCEPT ![p] =
                          [Idle EXCEPT !.op = "close_notification",
                                       !.pc = "connection", !.id = id]]
       ELSE /\ out' = <<Return("close_notification", id, "ok")>>
            /\ UNCHANGED <<notifications, lock, task, timers>>
    /\ UNCHANGED <<next_id, notifications_history, config, returned, pushed>>

\* self.connection.lock().await, conn.emit_signal(...).await, Ok(())
CloseEmit(p) ==
    /\ task[p].op = "close_notification" /\ task[p].pc = "connection"
    /\ lock["connection"] = Free
    /\ out' = <<ClosedSignal(task[p].id), Return("close_notification", task[p].id, "ok")>>
    /\ lock' = Release(lock, Handler(p))
    /\ task' = [task EXCEPT ![p] = Idle]
    /\ UNCHANGED <<next_id, notifications, notifications_history, config, timers,
                   returned, pushed>>

\* ------------------------------------- open_history / toggle_history / close_history
\* the call and its try_lock of the Config
HistoryCall(p, op) ==
    /\ CanCall(p)
    /\ IF lock["config"] # Free
       THEN /\ out' = <<Return(op, 0, "failed")>>
            /\ UNCHANGED <<task, lock>>
       ELSE /\ out' = <<>>
            /\ lock' = Acquire(lock, {"config"}, Handler(p))
            /\ task' = [task EXCEPT ![p] = [Idle EXCEPT !.op = op, !.pc = "push"]]
    /\ UNCHANGED <<next_id, notifications, notifications_history, config, timers,
                   returned, pushed>>

OpenHistory(p) == HistoryCall(p, "open_history")
ToggleHistoryCall(p) == HistoryCall(p, "toggle_history")
CloseHistory(p) == HistoryCall(p, "close_history")

\* the renderer call of each history operation
HistoryEffect(op, h) ==
    IF op = "open_history" THEN UpdateHistory(h)
    ELSE IF op = "toggle_history" THEN ToggleHistory(h)
    ELSE CloseHistoryWindow

\* (variant: the history is drained into the renderer call)
HistoryPush_Drains(p) ==
    /\ task[p].op \in {"open_history", "toggle_history", "close_history"}
    /\ task[p].pc = "push"
    /\ task[p].op = "close_history" \/ lock["notifications_history"] = Free
    /\ out' = <<HistoryEffect(task[p].op, notifications_history),
                Return(task[p].op, 0, "ok")>>
    /\ notifications_history' =
          IF task[p].op = "close_history" THEN notifications_history ELSE <<>>
    /\ lock' = Release(lock, Handler(p))
    /\ task' = [task EXCEPT ![p] = Idle]
    /\ UNCHANGED <<next_id, notifications, config, timers, returned, pushed>>

\* open and toggle lock the History; all three call the renderer and return
HistoryPush(p) ==
    /\ task[p].op \in {"open_history", "toggle_history", "close_history"}
    /\ task[p].pc = "push"
    /\ task[p].op = "close_history" \/ lock["notifications_history"] = Free
    /\ out' = <<HistoryEffect(task[p].op, notifications_history),
                Return(task[p].op, 0, "ok")>>
    /\ lock' = Release(lock, Handler(p))
    /\ task' = [task EXCEPT ![p] = Idle]
    /\ UNCHANGED <<next_id, notifications, notifications_history, config, timers,
                   returned, pushed>>

\* ------------------------------------------------------------- reply_close
\* lock the Store, try_lock the Config, clear the actions, push
ReplyClose(p, id) ==
    /\ CanCall(p)
    /\ lock["notifications"] = Free
    /\ IF lock["config"] # Free
       THEN /\ out' = <<Return("reply_close", id, "failed")>>
            /\ UNCHANGED <<notifications, lock, task>>
       ELSE /\ notifications' = ClearActions(notifications, id)
            /\ out' = IF id \in DOMAIN notifications
                      THEN <<UpdateNotifications(notifications')>>
                      ELSE <<>>
            /\ lock' = Acquire(lock, {"notifications", "config"}, Handler(p))
            /\ task' = [task EXCEPT ![p] =
                  [Idle EXCEPT !.op = "reply_close", !.pc = "window", !.id = id]]
    /\ UNCHANGED <<next_id, notifications_history, config, timers, returned, pushed>>

\* eww_close_window(&config, "notification-reply"), which can fail
ReplyWindow(p, ok) ==
    /\ task[p].op = "reply_close" /\ task[p].pc = "window"
    /\ out' = <<CloseWindow,
                Return("reply_close", task[p].id, IF ok THEN "ok" ELSE "failed")>>
    /\ lock' = Release(lock, Handler(p))
    /\ task' = [task EXCEPT ![p] = Idle]
    /\ UNCHANGED <<next_id, notifications, notifications_history, config, timers,
                   returned, pushed>>

\* --------------------------------------------------------- disable_timeout
DisableTimeout(p, id) ==
    /\ CanCall(p)
    /\ lock["notifications"] = Free
    /\ notifications' = SetCancelled(notifications, id)
    /\ out' = <<Return("disable_timeout", id, "ok")>>
    /\ UNCHANGED <<next_id, notifications_history, config, lock, task, timers,
                   returned, pushed>>

\* -------------------------------------------------------------------- Next
Next ==
    \/ \E p \in Procs, req \in Requests : NotifyCall(p, req)
    \/ \E p \in Procs : NotifyStore(p)
    \/ \E k \in 1..MaxNotify : TimerFire(k)
    \/ \E k \in 1..MaxNotify : TimerPush(k)
    \/ \E p \in Procs, id \in Ids : CloseNotification(p, id)
    \/ \E p \in Procs : CloseEmit(p)
    \/ \E p \in Procs : OpenHistory(p)
    \/ \E p \in Procs : ToggleHistoryCall(p)
    \/ \E p \in Procs : CloseHistory(p)
    \/ \E p \in Procs : HistoryPush(p)
    \/ \E p \in Procs, id \in Ids : ReplyClose(p, id)
    \/ \E p \in Procs, ok \in BOOLEAN : ReplyWindow(p, ok)
    \/ \E p \in Procs, id \in Ids : DisableTimeout(p, id)

Spec == Init /\ [][Next]_vars

\* ---------------------------------------------------------- fair scheduling
\* The runtime polls every task that can run, and the tokio Mutex hands the
\* lock to its waiters in FIFO order: a handler that has started finishes its
\* steps (the renderer and the signal call return), and a timer task whose
\* sleep is over gets the Store although handlers keep taking it.  No new
\* request has to arrive.
Fairness ==
    /\ \A p \in Procs : WF_vars(NotifyStore(p))
    /\ \A p \in Procs : WF_vars(CloseEmit(p))
    /\ \A p \in Procs : WF_vars(HistoryPush(p))
    /\ \A p \in Procs : WF_vars(\E ok \in BOOLEAN : ReplyWindow(p, ok))
    /\ \A k \in 1..MaxNotify : SF_vars(TimerFire(k))
    /\ \A k \in 1..MaxNotify : WF_vars(TimerPush(k))

\* the calls tried under fair scheduling: what a request carries besides its
\* id and whether it has a timeout plays no part in the locking
FairRequests ==
    [replaces_id : 0..MaxId, summary : {"s1"}, actions : {<<>>},
     urgency : {<<>>}, expire_timeout : {0, 250}]

NextFair ==
    \/ \E p \in Procs, req \in FairRequests : NotifyCall(p, req)
    \/ \E p \in Procs : NotifyStore(p)
    \/ \E k \in 1..MaxNotify : TimerFire(k)
    \/ \E k \in 1..MaxNotify : TimerPush(k)
    \/ \E p \in Procs, id \in Ids : CloseNotification(p, id)
    \/ \E p \in Procs : CloseEmit(p)
    \/ \E p \in Procs : OpenHistory(p)
    \/ \E p \in Procs : ToggleHistoryCall(p)
    \/ \E p \in Procs : CloseHistory(p)
    \/ \E p \in Procs : HistoryPush(p)
    \/ \E p \in Procs, id \in Ids : ReplyClose(p, id)
    \/ \E p \in Procs, ok \in BOOLEAN : ReplyWindow(p, ok)
    \/ \E p \in Procs, id \in Ids : DisableTimeout(p, id)

FairSpec == Init /\ [][NextFair]_vars /\ Fairness

\* ------------------------------------------------ the timeout policy, widely
\* every shape of the "urgency" hint: absent or not a u8, 0, 1, 2, another u8
PolicyUrgencyHints == {<<>>, <<0>>, <<1>>, <<2>>, <<3>>}
PolicyExpireTimeouts == {-1, 0, 250}

PolicyRequests ==
    [replaces_id : {0}, summary : {"s1"}, actions : {<<>>},
     urgency : PolicyUrgencyHints, expire_timeout : PolicyExpireTimeouts]

\* the Configs tried: each threshold either 0 or a value of its own
Configs ==
    [timeout : [low : {0, 1}, normal : {0, 5}, critical : {0, 10}],
     max_notifications : {max_notifications}]

InitPolicy ==
    /\ next_id = 0
    /\ notifications = <<>>
    /\ notifications_history = <<>>
    /\ config \in Configs
    /\ lock = [n \in LockNames |-> Free]
    /\ task = [p \in Procs |-> Idle]
    /\ timers = <<>>
    /\ out = <<>>
    /\ returned = <<>>
    /\ pushed = <<>>

NextPolicy ==
    \/ \E p \in Procs, req \in PolicyRequests : NotifyCall(p, req)
    \/ \E p \in Procs : NotifyStore(p)
    \/ \E k \in 1..MaxNotify : TimerFire(k)
    \/ \E k \in 1..MaxNotify : TimerPush(k)

PolicySpec == InitPolicy /\ [][NextPolicy]_vars

\* --------------------------------------------- the counter at the end of u32
\* the daemon after u32::MAX notify calls with replaces_id = 0 and
\* expire_timeout = 0, each closed again: the counter holds its maximum, the
\* Store is empty, no timer was spawned and the history holds the last
\* max_notifications entries; `returned` and `pushed` start here
InitWrap ==
    /\ next_id = U32Modulus - 1
    /\ notifications = <<>>
    /\ notifications_history = [i \in 1..max_notifications |-> [summary |-> "s1"]]
    /\ config = ConfigValue
    /\ lock = [n \in LockNames |-> Free]
    /\ task = [p \in Procs |-> Idle]
    /\ timers = <<>>
    /\ out = <<>>
    /\ returned = <<>>
    /\ pushed = <<>>

\* `self.next_id += 1` with overflow checks on (a debug build): the call
\* panics at line 61 before it has changed or locked anything.  NotifyCall is
\* the same call with overflow checks off (a release build): the counter wraps.
NotifyOverflow(p, req) ==
    /\ FreeSlot(p) /\ AllIdle
    /\ req.replaces_id = 0
    /\ next_id = U32Modulus - 1
    /\ out' = <<Return("notify", 0, "panic")>>
    /\ UNCHANGED <<next_id, notifications, notifications_history, config, lock,
                   task, timers, returned, pushed>>

NextWrap ==
    \/ Next
    \/ \E p \in Procs, req \in Requests : NotifyOverflow(p, req)

WrapSpec == InitWrap /\ [][NextWrap]_vars

TypeOK ==
    /\ next_id \in 0..(U32Modulus - 1)
    /\ DOMAIN notifications \subseteq 0..(U32Modulus - 1)
    /\ Len(notifications_history) <= MaxNotify
    /\ \A n \in LockNames :
          lock[n] \in {Free} \cup {Handler(p) : p \in Procs}
                      \cup {Timer(k) : k \in DOMAIN timers}

\* ===================================================================== claims
\* steps of the handlers, as seen from a pair of states
NotifyReturns(p) == task[p].op = "notify" /\ task'[p].op = "none"
TimerFires(k) == timers[k].pc = "sleep" /\ timers'[k].pc # "sleep"
Min(a, b) == IF a < b THEN a ELSE b
LastN(s, n) == SubSeq(s, Len(s) - n + 1, Len(s))
IsSuffix(a, b) == Len(a) <= Len(b) /\ a = LastN(b, Len(a))
NotifyCalled(p) == task[p].op = "none" /\ task'[p].op = "notify"
\* the step in which a close_notification(id) call locks the Store: it either
\* returns at once or goes on to the Connection
CloseCalled(id) ==
    \/ \E p \in Procs : /\ task[p].op = "none"
                         /\ task'[p].op = "close_notification"
                         /\ task'[p].id = id
    \/ /\ task' = task
       /\ \E i \in DOMAIN out' : out'[i].call = "close_notification" /\ out'[i].id = id
HasCall(o, call) == \E i \in DOMAIN o : o[i].call = call
HistoryOps == {"open_history", "close_history", "toggle_history"}
ControlOps == {"close_notification", "open_history", "close_history",
               "toggle_history", "reply_close"}

\* C1: the ids returned by the notify calls with replaces_id = 0 are strictly
\* increasing, hence pairwise distinct, and the first of them is 1, whatever
\* other operations run in between.
C1_AllocatedIdsIncrease ==
    /\ \A i, j \in DOMAIN returned : i < j => returned[i] < returned[j]
    /\ returned # <<>> => returned[1] = 1

\* three notify calls have returned, two of them with replaces_id = 0
C1_Witness == Len(returned) = 2 /\ Len(pushed) = 3 /\ AllIdle

\* C2 (as claimed): when a notify call with replaces_id = 0 inserts its record,
\* its id is not in the Store and the Store grows by exactly one entry.
C2_FreshIdNeverOverwrites ==
    [][\A p \in Procs :
          (NotifyReturns(p) /\ task[p].req.replaces_id = 0)
          => /\ task[p].id \notin DOMAIN notifications
             /\ Cardinality(DOMAIN notifications') =
                   Cardinality(DOMAIN notifications) + 1]_vars

\* C5 (as claimed): no task holds the Config while it waits for the Store.
C5_StoreBeforeConfig ==
    \A p \in Procs : task[p].pc = "store" => lock["config"] # Handler(p)

\* C10: the history never exceeds the cap and is exactly the last
\* min(n, cap) entries pushed by the n notify calls so far, in call order.
C10_HistoryIsLastPushed ==
    /\ Len(notifications_history) <= config.max_notifications
    /\ notifications_history =
          LastN(pushed, Min(Len(pushed), config.max_notifications))

\* more calls than the cap, the last of them reusing an id
C10_Witness ==
    /\ Len(pushed) > config.max_notifications
    /\ Len(notifications_history) = config.max_notifications
    /\ Len(returned) < Len(pushed)
    /\ pushed[1] # pushed[2]

\* C3 (as claimed): a notify call with expire_timeout = 0 spawns no timer task,
\* and the record it creates (the one with no timer handle) leaves the Store
\* only through close_notification on its id, or while a later notify that
\* reuses its id is about to overwrite it.
C3_NoTimeoutRecordStays ==
    [][/\ \A p \in Procs :
             (NotifyCalled(p) /\ task'[p].req.expire_timeout = 0)
             => (timers' = timers /\ task'[p].join_handle = 0)
       /\ \A id \in DOMAIN notifications :
             (notifications[id].timeout_future = 0 /\ id \notin DOMAIN notifications')
             => \/ CloseCalled(id)
                \/ \E p \in Procs : task[p].op = "notify" /\ task[p].id = id]_vars

\* C4 (as claimed): a control operation whose try_lock of the Config fails
\* returns the error and leaves the Store and the history as they were and
\* emits no signal.
C4_LockFailureMutatesNothing ==
    [][\A i \in DOMAIN out' :
          (out'[i].call \in ControlOps /\ out'[i].result = "failed" /\ task' = task)
          => /\ notifications' = notifications
             /\ notifications_history' = notifications_history
             /\ ~HasCall(out', "NotificationClosed")]_vars

\* C6 (as claimed): the firing of a timer whose record close_notification
\* removed finds the id absent: the Store is unchanged and the task ends
\* without a push.
C6_ClosedTimerIsNoOp ==
    [][\A k \in DOMAIN timers :
          (TimerFires(k) /\ timers[k].closed)
          => /\ notifications' = notifications
             /\ timers'[k].pc = "done"
             /\ out' = <<>>]_vars

\* C7 (as claimed): close_notification(id) on a present id removes it, pushes
\* the new active set (and the close directive when it is empty) and goes on
\* to emit exactly one NotificationClosed(id, 3).
C7_CloseRemovesPushesSignals ==
    [][/\ \A id \in DOMAIN notifications :
             CloseCalled(id)
             => /\ id \notin DOMAIN notifications'
                /\ out' = PushActive(notifications')
                /\ \E p \in Procs : /\ task'[p].op = "close_notification"
                                    /\ task'[p].pc = "connection"
                                    /\ task'[p].id = id
       /\ \A p \in Procs :
             (task[p].pc = "connection" /\ task'[p].pc # "connection")
             => /\ Cardinality({i \in DOMAIN out' :
                                   out'[i].call = "NotificationClosed"}) = 1
                /\ \A i \in DOMAIN out' :
                      out'[i].call = "NotificationClosed"
                      => out'[i].id = task[p].id /\ out'[i].reason = 3]_vars

\* C8: close_notification(id) on an absent id returns success at once and
\* changes nothing; a task goes on to the signal only in a step that removed
\* its id, and NotificationClosed(id, .) is only emitted by such a task.
C8_CloseAbsentIsNoOp ==
    [][/\ \A id \in Ids :
             (CloseCalled(id) /\ id \notin DOMAIN notifications)
             => /\ out' = <<Return("close_notification", id, "ok")>>
                /\ notifications' = notifications
                /\ notifications_history' = notifications_history
                /\ task' = task /\ lock' = lock /\ timers' = timers
       /\ \A p \in Procs :
             (task'[p].pc = "connection" /\ task[p].pc # "connection")
             => /\ task'[p].id \in DOMAIN notifications
                /\ task'[p].id \notin DOMAIN notifications'
       /\ \A i \in DOMAIN out' :
             out'[i].call = "NotificationClosed"
             => \E p \in Procs : /\ task[p].op = "close_notification"
                                 /\ task[p].pc = "connection"
                                 /\ task[p].id = out'[i].id]_vars

\* close_notification has just returned success on an id that is absent while
\* another record is in the Store
C8_Witness ==
    /\ Len(out) = 1 /\ out[1].call = "close_notification" /\ out[1].result = "ok"
    /\ out[1].id \notin DOMAIN notifications
    /\ DOMAIN notifications # {}
    /\ AllIdle

\* C9: a notify call with replaces_id = K # 0 uses K as its id, leaves the
\* counter alone and pushes its entry behind the entries the history keeps;
\* when it inserts and K is in the Store, the key set is unchanged, K's
\* record is the one built from the request (flag cleared, new timer
\* handle), the other records are untouched and K is returned.
C9_ReplaceKeepsKeys ==
    [][\A p \in Procs :
          /\ (NotifyCalled(p) /\ task'[p].req.replaces_id # 0)
             => /\ task'[p].id = task'[p].req.replaces_id
                /\ next_id' = next_id
                /\ pushed' = Append(pushed, [summary |-> task'[p].req.summary])
                /\ config.max_notifications > 0
                   => /\ notifications_history'[Len(notifications_history')] =
                            [summary |-> task'[p].req.summary]
                      /\ IsSuffix(SubSeq(notifications_history', 1,
                                         Len(notifications_history') - 1),
                                  notifications_history)
                      /\ Len(notifications_history') >= Len(notifications_history)
          /\ (/\ NotifyReturns(p)
              /\ task[p].req.replaces_id # 0
              /\ task[p].req.replaces_id \in DOMAIN notifications)
             => LET K == task[p].req.replaces_id
                IN /\ DOMAIN notifications' = DOMAIN notifications
                   /\ notifications'[K] =
                         [summary |-> task[p].req.summary,
                          actions |-> Chunks(task[p].req.actions),
                          timeout_cancelled |-> FALSE,
                          timeout_future |-> task[p].join_handle]
                   /\ \A id \in DOMAIN notifications \ {K} :
                         notifications'[id] = notifications[id]
                   /\ \E i \in DOMAIN out' :
                         /\ out'[i].call = "notify"
                         /\ out'[i].id = K /\ out'[i].result = "ok"]_vars

\* a replacing call has pushed its history entry and is about to insert over
\* a suppressed record with another summary, next to a second record
C9_Witness ==
    \E p \in Procs :
        /\ task[p].op = "notify" /\ task[p].pc = "store"
        /\ task[p].req.replaces_id \in DOMAIN notifications
        /\ notifications[task[p].req.replaces_id].timeout_cancelled
        /\ notifications[task[p].req.replaces_id].summary # task[p].req.summary
        /\ Cardinality(DOMAIN notifications) = 2
        /\ lock["notifications"] = Free

\* C11: the effective timeout of a notify call is, for expire_timeout < 0,
\* low*1000 when the urgency hint is 0, critical*1000 when it is 2 and
\* normal*1000 otherwise (1, absent, unrecognized); for expire_timeout >= 0 it
\* is expire_timeout itself; the call spawns a timer task for its id exactly
\* when that value is not 0.
C11_TimeoutPolicy ==
    [][\A p \in Procs :
          NotifyCalled(p)
          => LET r == task'[p].req
                 ms == IF r.expire_timeout >= 0 THEN r.expire_timeout
                       ELSE IF r.urgency = <<0>> THEN config.timeout.low * 1000
                       ELSE IF r.urgency = <<2>> THEN config.timeout.critical * 1000
                       ELSE config.timeout.normal * 1000
             IN /\ task'[p].expire_timeout = ms
                /\ IF ms # 0
                   THEN /\ Len(timers') = Len(timers) + 1
                        /\ timers'[Len(timers')].pc = "sleep"
                        /\ timers'[Len(timers')].id = task'[p].id
                        /\ task'[p].join_handle = Len(timers')
                        /\ SubSeq(timers', 1, Len(timers)) = timers
                   ELSE /\ timers' = timers
                        /\ task'[p].join_handle = 0]_vars

\* a call with expire_timeout < 0 and urgency 2 got critical*1000 and a timer,
\* after a call with expire_timeout < 0 whose threshold is 0 got none
C11_Witness ==
    \E p \in Procs :
        /\ task[p].pc = "store"
        /\ task[p].req.expire_timeout < 0 /\ task[p].req.urgency = <<2>>
        /\ task[p].expire_timeout = 10000
        /\ config.timeout.low = 0
        /\ task[p].join_handle = 1
        /\ Len(pushed) = 2

\* C12: disable_timeout leaves the timer tasks as they are; a timer that fires
\* on a record whose suppression flag is set removes the record and pushes
\* neither an active-set snapshot nor a window-close directive, in the firing
\* step or afterwards, even when the Store is then empty.
C12_SuppressedTimerRemovesSilently ==
    [][/\ HasCall(out', "disable_timeout") => timers' = timers
       /\ \A k \in DOMAIN timers :
             /\ (/\ TimerFires(k)
                 /\ timers[k].id \in DOMAIN notifications
                 /\ notifications[timers[k].id].timeout_cancelled)
                => /\ timers[k].id \notin DOMAIN notifications'
                   /\ out' = <<>>
                   /\ timers'[k].pc = "push" => timers'[k].cancelled
             /\ (timers[k].pc = "push" /\ timers[k].cancelled /\ timers'[k] # timers[k])
                => /\ out' = <<>>
                   /\ notifications' = notifications
                   /\ timers'[k].pc = "done"]_vars

\* a timer has removed the last record, which disable_timeout had flagged, and
\* holds the Config for its pushes
C12_Witness ==
    \E k \in DOMAIN timers :
        /\ timers[k].pc = "push" /\ timers[k].cancelled
        /\ notifications = <<>>
        /\ lock["config"] = Timer(k)

\* C13 (as claimed): no notify call with replaces_id = 0 returns 0 or puts
\* key 0 into the Store, also when the counter holds its maximum.
C13_IdZeroNeverIssued ==
    /\ \A i \in DOMAIN returned : returned[i] # 0
    /\ 0 \notin DOMAIN notifications

\* C14: no step of open_history, close_history or toggle_history (the call
\* with its try_lock, failed or not, and the renderer call with the return)
\* changes the Store, the history or the id counter.
C14_HistoryOpsReadOnly ==
    [][(\/ \E p \in Procs : /\ task'[p] # task[p]
                            /\ task[p].op \in HistoryOps \/ task'[p].op \in HistoryOps
        \/ \E i \in DOMAIN out' : out'[i].call \in HistoryOps)
       => /\ notifications' = notifications
          /\ notifications_history' = notifications_history
          /\ next_id' = next_id]_vars

\* toggle_history has just pushed a non-empty history and returned, with a
\* suppressed record in the Store
C14_Witness ==
    /\ Len(out) = 2
    /\ out[1].call = "eww_toggle_history" /\ out[1].history # <<>>
    /\ out[2] = Return("toggle_history", 0, "ok")
    /\ \E id \in DOMAIN notifications : notifications[id].timeout_cancelled

\* C15 (as claimed): a record leaves the Store only through close_notification
\* on its id, through the firing of the timer task spawned by the notify call
\* that created it, or while a later notify on its id is overwriting it; the
\* timer of a superseded record never removes the record that replaced it.
C15_OnlyOwnTimerRemoves ==
    [][\A id \in DOMAIN notifications :
          id \notin DOMAIN notifications'
          => \/ CloseCalled(id)
             \/ \E k \in DOMAIN timers :
                   TimerFires(k) /\ notifications[id].timeout_future = k
             \/ \E p \in Procs : task[p].op = "notify" /\ task[p].id = id]_vars

\* the record that the notify call which spawned timer k inserted is in the Store
RecordOf(k) ==
    \E id \in DOMAIN notifications : notifications[id].timeout_future = k

\* C16 (as claimed): under fair scheduling the record of every notify call
\* that spawned a timer eventually leaves the Store (through its timer, unless
\* it is closed or replaced first), whether the timer fires before or after
\* the handler inserts the record.
C16_TimedRecordEventuallyLeaves ==
    \A k \in 1..MaxNotify : RecordOf(k) ~> ~RecordOf(k)

TimerAt(k, pc) == k \in DOMAIN timers /\ timers[k].pc = pc

\* the locks a finished task would still hold
Leaked ==
    \/ \E p \in Procs, n \in LockNames : task[p].pc = "idle" /\ lock[n] = Handler(p)
    \/ \E k \in DOMAIN timers, n \in LockNames :
          timers[k].pc \in {"sleep", "done"} /\ lock[n] = Timer(k)

\* C17: under fair scheduling every handler that has started returns and every
\* timer task that has taken the Store ends, and a task that is not running
\* holds no lock.
C17_NoDeadlock ==
    /\ [](~Leaked)
    /\ \A p \in Procs : (task[p].pc # "idle") ~> (task[p].pc = "idle")
    /\ \A k \in 1..MaxNotify :
          TimerAt(k, "push") ~> TimerAt(k, "done")

\* close_notification holds the Store and the Config and is about to take the
\* Connection, while the timer of another call sleeps and a third call is done
C17_Witness ==
    \E p \in Procs :
        /\ task[p].op = "close_notification" /\ task[p].pc = "connection"
        /\ lock["notifications"] = Handler(p) /\ lock["config"] = Handler(p)
        /\ \E k \in DOMAIN timers : timers[k].pc = "sleep"
        /\ Len(pushed) >= 2

\* C18: a timer that fires on a present id whose suppression flag is not set
\* removes that record and no other; with the Config free it takes it and
\* then pushes the active set as it is, and the window-close directive when
\* that set is empty; with the Config taken it ends in the same step, without
\* a push and without waiting.  A timer past its sleep is never without the
\* Config unless it is done.
C18_TimerRemovesAndPushes ==
    [][\A k \in DOMAIN timers :
          /\ (/\ TimerFires(k)
              /\ timers[k].id \in DOMAIN notifications
              /\ ~notifications[timers[k].id].timeout_cancelled)
             => /\ DOMAIN notifications' = DOMAIN notifications \ {timers[k].id}
                /\ \A id \in DOMAIN notifications' :
                      notifications'[id] = notifications[id]
                /\ out' = <<>>
                /\ IF lock["config"] = Free
                   THEN /\ timers'[k].pc = "push" /\ ~timers'[k].cancelled
                        /\ lock'["config"] = Timer(k)
                        /\ lock'["notifications"] = Timer(k)
                   ELSE /\ timers'[k].pc = "done"
                        /\ lock' = lock
          /\ (timers[k].pc = "push" /\ ~timers[k].cancelled /\ timers'[k] # timers[k])
             => /\ out' = IF DOMAIN notifications = {}
                          THEN <<UpdateNotifications(notifications), CloseNotifications>>
                          ELSE <<UpdateNotifications(notifications)>>
                /\ notifications' = notifications
                /\ timers'[k].pc = "done"
                /\ \A n \in LockNames : lock'[n] # Timer(k)
          /\ timers'[k].pc \in {"sleep", "push", "done"}
          /\ timers'[k].pc = "push" => lock'["config"] = Timer(k)]_vars

\* a timer has removed the last record and pushed the empty active set and
\* the window-close directive, after another timer has ended
C18_Witness ==
    /\ out = <<UpdateNotifications(<<>>), CloseNotifications>>
    /\ AllIdle
    /\ notifications = <<>>
    /\ Cardinality({k \in DOMAIN timers : timers[k].pc = "done"}) >= 2

\* C19: the Store changes, and an active-set snapshot is pushed, only in a step
\* of the task that holds the Store lock or takes it, free, in that step; a
\* task between its Store access and its last push or call holds the lock
\* throughout; every snapshot pushed is the Store as that step leaves it.
C19_StoreAccessUnderLock ==
    [][/\ (notifications' # notifications \/ HasCall(out', "eww_update_notifications"))
          => /\ \/ lock["notifications"] = Free
                \/ \E k \in DOMAIN timers :
                      lock["notifications"] = Timer(k) /\ timers'[k] # timers[k]
                \/ \E p \in Procs :
                      lock["notifications"] = Handler(p) /\ task'[p] # task[p]
             /\ \A i \in DOMAIN out' :
                   out'[i].call = "eww_update_notifications"
                   => out'[i].active = notifications'
       /\ \A k \in DOMAIN timers :
             timers[k].pc = "push" => lock["notifications"] = Timer(k)
       /\ \A p \in Procs :
             task[p].pc \in {"connection", "window"}
             => lock["notifications"] = Handler(p)]_vars

\* a timer has pushed, as the only call of its step, the records that remain
\* after its removal
C19_Witness ==
    /\ Len(out) = 1
    /\ out[1].call = "eww_update_notifications"
    /\ out[1].active = notifications
    /\ DOMAIN notifications # {}
    /\ AllIdle

\* the step in which a reply_close(id) call locks the Store and tries the
\* Config: it either returns the error at once or goes on to the window call
ReplyCalled(id) ==
    \/ \E p \in Procs : /\ task[p].op = "none"
                         /\ task'[p].op = "reply_close"
                         /\ task'[p].id = id
    \/ /\ task' = task
       /\ \E i \in DOMAIN out' : out'[i].call = "reply_close" /\ out'[i].id = id

\* what reply_close(id) does to the Store and pushes, as claimed
ReplyEffect(id) ==
    /\ DOMAIN notifications' = DOMAIN notifications
    /\ \A k \in DOMAIN notifications :
          notifications'[k] =
             IF k = id
             THEN [summary |-> notifications[k].summary,
                   actions |-> <<>>,
                   timeout_cancelled |-> notifications[k].timeout_cancelled,
                   timeout_future |-> notifications[k].timeout_future]
             ELSE notifications[k]
    /\ IF id \in DOMAIN notifications
       THEN out' = <<UpdateNotifications(notifications')>>
       ELSE out' = <<>>
    /\ \E p \in Procs : /\ task'[p].op = "reply_close"
                         /\ task'[p].pc = "window"
                         /\ task'[p].id = id

\* the window step: the closure of the reply window is requested, the Store
\* stays as it is
ReplyWindowRequested ==
    \A p \in Procs :
        (task[p].pc = "window" /\ task'[p].pc # "window")
        => /\ HasCall(out', "eww_close_window")
           /\ notifications' = notifications

\* C20 (as claimed): every reply_close(id) call empties the action list of a
\* present id and pushes the snapshot, changes nothing else, pushes nothing
\* for an absent id, and goes on to request the closure of the reply window.
C20_ReplyAlwaysClearsAndCloses ==
    [][/\ \A id \in Ids : ReplyCalled(id) => ReplyEffect(id)
       /\ ReplyWindowRequested]_vars

\* C20 (amended): the same for a call whose try_lock of the Config succeeds;
\* a call whose try_lock fails returns the error, changes nothing, pushes
\* nothing and requests no closure.
C20_ReplyClearsUnlessConfigTaken ==
    [][/\ \A id \in Ids :
             ReplyCalled(id)
             => IF lock["config"] = Free
                THEN ReplyEffect(id)
                ELSE /\ notifications' = notifications
                     /\ task' = task
                     /\ out' = <<Return("reply_close", id, "failed")>>
       /\ ReplyWindowRequested]_vars

\* a reply_close call has emptied the action list of a suppressed record that
\* came with actions and is about to request the closure of the window
C20_Witness ==
    \E p \in Procs :
        /\ task[p].op = "reply_close" /\ task[p].pc = "window"
        /\ task[p].id \in DOMAIN notifications
        /\ notifications[task[p].id].summary = "s2"
        /\ notifications[task[p].id].actions = <<>>
        /\ notifications[task[p].id].timeout_cancelled
        /\ notifications[task[p].id].timeout_future # 0

====
